---- MODULE Spec2Model ----
(***************************************************************************)
(* Model of src/js/app.js: the search controller (search, onRequestLoad,   *)
(* onRequestError, showError, the link click listener) together with the   *)
(* parts of the browser it drives: the XMLHttpRequest objects it creates,  *)
(* the two DOM regions, the input field, the main page location and the    *)
(* named windows opened by window.open.                                    *)
(*                                                                         *)
(* A request goes through  sent -> queued -> done  (the network finished   *)
(* and queued the load/error event; the event loop then runs the handler)  *)
(* or is moved to  aborted  by request.abort().  abort() always cancels a  *)
(* request that is still on the network.  When the completion event is     *)
(* already queued, abort() is best-effort: the event is either dropped or  *)
(* still delivered, and both outcomes are explored.                        *)
(*                                                                         *)
(* The second script of the file, the map widget's route callback          *)
(* displayNarrative, shares no variable with the controller.  It is        *)
(* explored in SpecNarrative, which applies it to every route of           *)
(* RouteData, starting from snapshots of the controller's states.          *)
(***************************************************************************)
EXTENDS Naturals, Sequences, FiniteSets, TLC

VARIABLES request, reqs, resultsContent, resultsHidden, errorText, errorHidden,
          inputValue, placeholder, windows, location, ready, lastEvent,
          narrative, routeData

vars == <<request, reqs, resultsContent, resultsHidden, errorText, errorHidden,
          inputValue, placeholder, windows, location, ready, lastEvent,
          narrative, routeData>>

ui == <<resultsContent, resultsHidden, errorText, errorHidden>>

----------------------------------------------------------------------------
(* Bounds *)

\* number of XMLHttpRequest objects created in one run (search() invocations)
MaxReq == 2
\* number of legs of the routes handed to displayNarrative
MaxLegs == 2

----------------------------------------------------------------------------
(* Program constants and the environment's values *)

apiURL == "https://developer.mozilla.org/search.json?q="

\* navigator.mozL10n.get: the localised string of a key
translate(key) == "l10n:" \o key

\* the page the app runs in, and what the main window shows after a default
\* form submission
AppURL == "app://mapq/index.html"
FormSubmitURL == "app://mapq/index.html?"

\* what the user can type in the term field, and the field's placeholder
Terms == {"", "a b&c"}
Placeholders == {"javascript"}

\* values of request.error seen by onRequestError ("" stands for undefined)
Errors == {"", "NetworkError"}

DocA == [title |-> "A", url |-> "http://x/"]
DocB == [title |-> "B", url |-> "/docs/b"]
AbsoluteURLs == {"http://x/"}

\* the documents lists a response can carry
DocLists == {<<>>, <<DocB>>, <<DocA, DocB>>}

\* request.response with responseType 'json': null, an object without a
\* documents member, or an object with a documents list
NullResponse == [isNull |-> TRUE, hasDocuments |-> FALSE, documents |-> <<>>]
ObjectResponse == [isNull |-> FALSE, hasDocuments |-> FALSE, documents |-> <<>>]
DocumentsResponse(docs) == [isNull |-> FALSE, hasDocuments |-> TRUE, documents |-> docs]
Responses ==
    {NullResponse, ObjectResponse}
        \cup {DocumentsResponse(d) : d \in DocLists}

----------------------------------------------------------------------------
(* Route data handed to the narrative callback *)

NullSign == [isNull |-> TRUE, url |-> ""]
Sign(url) == [isNull |-> FALSE, url |-> url]

\* maneuvers: iconUrl "" stands for a missing icon, a sign can be null or
\* lack a url; urls and narratives are the directions service's plain text,
\* free of markup, so each is one piece of the HTML the callback writes
ManeuverTurn ==
    [iconUrl |-> "icon-left.gif",
     signs |-> <<Sign("sign-1.gif"), NullSign, Sign(""), Sign("sign-2.gif")>>,
     narrative |-> "Turn left"]
ManeuverGo == [iconUrl |-> "", signs |-> <<>>, narrative |-> "Go north"]
ManeuverArrive ==
    [iconUrl |-> "icon-end.gif", signs |-> <<Sign("sign-3.gif")>>, narrative |-> "Arrive"]

Leg(maneuvers) == [maneuvers |-> maneuvers]
Legs ==
    {Leg(<<>>), Leg(<<ManeuverTurn>>), Leg(<<ManeuverGo, ManeuverArrive>>),
     Leg(<<ManeuverArrive, ManeuverTurn, ManeuverGo>>)}

RECURSIVE SeqsUpTo(_, _)
SeqsUpTo(S, n) ==
    IF n = 0 THEN {<<>>}
    ELSE LET shorter == SeqsUpTo(S, n - 1)
         IN  shorter \cup {Append(q, x) : q \in {t \in shorter : Len(t) = n - 1}, x \in S}

\* data without a route, and data.route.legs
NoRoute == [hasRoute |-> FALSE, legs |-> <<>>]
Route(legs) == [hasRoute |-> TRUE, legs |-> legs]
RouteData == {NoRoute} \cup {Route(l) : l \in SeqsUpTo(Legs, MaxLegs)}

----------------------------------------------------------------------------
(* DOM nodes *)

Node(tag, text, href, onclick, children) ==
    [tag |-> tag, text |-> text, href |-> href, onclick |-> onclick,
     children |-> children]

TextNode(s) == Node("#text", s, "", FALSE, <<>>)

\* element.textContent = s : all children are replaced by one text node,
\* or by nothing when s is the empty string
SetTextContent(s) == IF s = "" THEN <<>> ELSE <<TextNode(s)>>

\* the href property of a link: its href attribute resolved against the page
ResolveURL(u) == IF u \in AbsoluteURLs THEN u ELSE "app://mapq" \o u

----------------------------------------------------------------------------
(* XMLHttpRequest *)

\* new XMLHttpRequest; open('get', url, true); responseType = 'json';
\* both listeners added; send()
NewRequest(url) ==
    [url |-> url, status |-> "sent", event |-> "none",
     response |-> NullResponse, error |-> ""]

\* request.response as a script reads it: null until the request is done
Response(rs, r) == IF rs[r].status = "done" THEN rs[r].response ELSE NullResponse

\* request.error as a script reads it
RequestError(rs, r) == IF rs[r].status = "done" THEN rs[r].error ELSE ""

InFlight(rs) == {r \in DOMAIN rs : rs[r].status = "sent"}

\* mutant: search() forgets to stop the search already running
AbortPreviousSkipped(rs, r, dropped) == rs

\* request.abort(): a request on the network is cancelled, one whose
\* completion event is queued is cancelled when the event can still be dropped;
\* a cancelled request's response is reset
Abort(req, dropped) ==
    IF req.status = "sent" \/ (req.status = "queued" /\ dropped)
    THEN [req EXCEPT !.status = "aborted", !.event = "none",
                     !.response = NullResponse, !.error = ""]
    ELSE req

\* if(request && request.abort) request.abort();
AbortPrevious(rs, r, dropped) ==
    IF r = 0 THEN rs ELSE [rs EXCEPT ![r] = Abort(@, dropped)]

----------------------------------------------------------------------------
Init ==
    /\ request = 0
    /\ reqs = <<>>
    /\ resultsContent = <<>>
    /\ resultsHidden \in BOOLEAN
    /\ errorText = ""
    /\ errorHidden \in BOOLEAN
    /\ inputValue = ""
    /\ placeholder \in Placeholders
    /\ windows = <<>>
    /\ location = AppURL
    /\ ready = FALSE
    /\ lastEvent = [op |-> "init", arg |-> 0]
    /\ narrative = <<>>
    /\ routeData = NoRoute

----------------------------------------------------------------------------
(* search() *)

\* mutant: the error region is left as it was
ShowSearchingKeepsError ==
    /\ resultsContent' = SetTextContent(translate("searching"))
    /\ resultsHidden' = FALSE
    /\ UNCHANGED <<errorHidden, errorText>>

\* mutant: the error text is cleared as well
ShowSearchingClearsErrorText ==
    /\ resultsContent' = SetTextContent(translate("searching"))
    /\ resultsHidden' = FALSE
    /\ errorHidden' = TRUE
    /\ errorText' = ""

\* results.textContent = translate('searching');
\* results.hidden = false; errorMsg.hidden = true;
ShowSearching ==
    /\ resultsContent' = SetTextContent(translate("searching"))
    /\ resultsHidden' = FALSE
    /\ errorHidden' = TRUE
    /\ errorText' = errorText

\* mutant: the placeholder fallback is missing
EffectiveTermNoFallback(value, ph) == value

\* var term = searchInput.value; if(term.length === 0) term = searchInput.placeholder;
EffectiveTerm(value, ph) == IF Len(value) = 0 THEN ph ELSE value

\* var url = apiURL + term;
RequestURL(term) == apiURL \o term

\* mutant: a search is ignored once a request object exists
searchOnlyFirst ==
    /\ request = 0
    /\ Len(reqs) < MaxReq
    /\ reqs' = Append(reqs, NewRequest(RequestURL(EffectiveTerm(inputValue, placeholder))))
    /\ request' = Len(reqs) + 1
    /\ ShowSearching
    /\ UNCHANGED <<inputValue, placeholder, narrative, routeData, windows>>

search ==
    /\ Len(reqs) < MaxReq
    /\ \E dropped \in BOOLEAN :
         reqs' = Append(AbortPrevious(reqs, request, dropped),
                        NewRequest(RequestURL(EffectiveTerm(inputValue, placeholder))))
    /\ request' = Len(reqs) + 1
    /\ ShowSearching
    /\ UNCHANGED <<inputValue, placeholder, narrative, routeData, windows>>

----------------------------------------------------------------------------
(* completion handlers *)

showError(text) ==
    /\ errorText' = text
    /\ errorHidden' = FALSE
    /\ resultsHidden' = TRUE
    /\ resultsContent' = resultsContent

\* mutant: the generic message is always used
ErrorMessageAlwaysGeneric(err) == translate("searching_error")

\* var errorMessage = request.error; if(!errorMessage) errorMessage = translate(...)
ErrorMessage(err) == IF err = "" THEN translate("searching_error") ELSE err

onRequestError(rs) == showError(ErrorMessage(RequestError(rs, request)))

\* the <a> built for one document, with its click listener attached
DocLink(doc) == Node("a", "", doc.url, TRUE, SetTextContent(doc.title))

\* results.textContent = '';
ClearedResults(content) == SetTextContent("")

\* mutant: the documents are rendered last to first
RenderDocumentsReversed(docs) ==
    IF Len(docs) = 0
    THEN <<Node("p", "", "", FALSE, SetTextContent(translate("search_no_results")))>>
    ELSE [i \in 1..Len(docs) |->
            Node("h2", "", "", FALSE, <<DocLink(docs[Len(docs) + 1 - i])>>)]

\* the children appended to the results region for a documents list
RenderDocuments(docs) ==
    IF Len(docs) = 0
    THEN <<Node("p", "", "", FALSE, SetTextContent(translate("search_no_results")))>>
    ELSE [i \in 1..Len(docs) |-> Node("h2", "", "", FALSE, <<DocLink(docs[i])>>)]

\* mutant: a null response is rendered as an empty list
onRequestLoadNoNullCheck(rs) ==
    LET response == Response(rs, request)
    IN  /\ resultsContent' = ClearedResults(resultsContent) \o RenderDocuments(response.documents)
        /\ resultsHidden' = FALSE
        /\ UNCHANGED <<errorText, errorHidden>>

onRequestLoad(rs) ==
    LET response == Response(rs, request)
    IN  IF response.isNull
        THEN showError(translate("searching_error"))
        ELSE IF ~response.hasDocuments
        THEN \* documents.length throws: the handler stops after the clearing
             /\ resultsContent' = ClearedResults(resultsContent)
             /\ UNCHANGED <<resultsHidden, errorText, errorHidden>>
        ELSE /\ resultsContent' =
                    ClearedResults(resultsContent) \o RenderDocuments(response.documents)
             /\ resultsHidden' = FALSE
             /\ UNCHANGED <<errorText, errorHidden>>

----------------------------------------------------------------------------
(* window.open and the click listener *)

\* window.open(url, name): a window of that name is reused, '_blank' never is
WindowOpen(ws, url, name) ==
    IF name # "_blank" /\ \E i \in DOMAIN ws : ws[i].name = name
    THEN [i \in DOMAIN ws |->
            IF ws[i].name = name THEN [ws[i] EXCEPT !.url = url] ELSE ws[i]]
    ELSE Append(ws, [name |-> name, url |-> url])

\* mutant: every click opens a window of its own
LinkClickListenerBlank(link) ==
    /\ windows' = WindowOpen(windows, ResolveURL(link.href), "_blank")
    /\ location' = location

\* evt.preventDefault(); window.open(evt.target.href, 'overlay');
LinkClickListener(link) ==
    LET defaultPrevented == TRUE
    IN  /\ windows' = WindowOpen(windows, ResolveURL(link.href), "overlay")
        /\ location' = IF defaultPrevented THEN location ELSE ResolveURL(link.href)

\* the rendered links the user can click: positions of the results region
Links == {i \in DOMAIN resultsContent : resultsContent[i].tag = "h2"}

----------------------------------------------------------------------------
(* Actions: one per event the page receives *)

\* form 'submit' listener: e.preventDefault(); search();
Submit ==
    /\ location = AppURL
    /\ LET defaultPrevented == TRUE
       IN  location' = IF defaultPrevented THEN location ELSE FormSubmitURL
    /\ search
    /\ lastEvent' = [op |-> "submit", arg |-> request']
    /\ UNCHANGED ready

\* mutant: the search is registered for every localisation event, not once
L10nReadyEveryTime ==
    /\ location = AppURL
    /\ ready' = TRUE
    /\ search
    /\ lastEvent' = [op |-> "ready", arg |-> request']
    /\ UNCHANGED location

\* navigator.mozL10n.once(search): the localisation library is ready
L10nReady ==
    /\ location = AppURL
    /\ ~ready
    /\ ready' = TRUE
    /\ search
    /\ lastEvent' = [op |-> "ready", arg |-> request']
    /\ UNCHANGED location

\* the user edits the term field
TypeTerm(t) ==
    /\ location = AppURL
    /\ t # inputValue
    /\ inputValue' = t
    /\ lastEvent' = [op |-> "type", arg |-> 0]
    /\ UNCHANGED <<request, reqs, ui, placeholder, narrative, routeData, windows, location, ready>>

\* the network finishes a request and queues its completion event
NetComplete(r, ev, resp, err) ==
    /\ reqs[r].status = "sent"
    /\ reqs' = [reqs EXCEPT ![r].status = "queued", ![r].event = ev,
                            ![r].response = resp, ![r].error = err]
    /\ lastEvent' = [op |-> "net", arg |-> r]
    /\ UNCHANGED <<request, ui, inputValue, placeholder, narrative, routeData, windows, location, ready>>

NetLoad == \E r \in DOMAIN reqs : \E resp \in Responses : NetComplete(r, "load", resp, "")

NetError == \E r \in DOMAIN reqs : \E err \in Errors : NetComplete(r, "error", NullResponse, err)

\* mutant: the handler reads the request whose event fired (the event's
\* target) instead of the shared handle
DeliverLoadOwnResponse(r) ==
    /\ location = AppURL
    /\ reqs[r].status = "queued"
    /\ reqs[r].event = "load"
    /\ LET rs == [reqs EXCEPT ![r].status = "done"]
           response == Response(rs, r)
       IN  /\ reqs' = rs
           /\ IF response.isNull
              THEN showError(translate("searching_error"))
              ELSE /\ resultsContent' =
                          ClearedResults(resultsContent) \o RenderDocuments(response.documents)
                   /\ resultsHidden' = FALSE
                   /\ UNCHANGED <<errorText, errorHidden>>
    /\ lastEvent' = [op |-> "load", arg |-> r]
    /\ UNCHANGED <<request, inputValue, placeholder, narrative, routeData, windows, location, ready>>

\* the 'load' event of request r is dispatched
DeliverLoad(r) ==
    /\ location = AppURL
    /\ reqs[r].status = "queued"
    /\ reqs[r].event = "load"
    /\ LET rs == [reqs EXCEPT ![r].status = "done"]
       IN  reqs' = rs /\ onRequestLoad(rs)
    /\ lastEvent' = [op |-> "load", arg |-> r]
    /\ UNCHANGED <<request, inputValue, placeholder, narrative, routeData, windows, location, ready>>

\* mutant: the error handler retries the failed request by itself
DeliverErrorRetries(r) ==
    /\ location = AppURL
    /\ reqs[r].status = "queued"
    /\ reqs[r].event = "error"
    /\ LET rs == [reqs EXCEPT ![r].status = "done"]
       IN  reqs' = Append(rs, NewRequest(rs[r].url)) /\ onRequestError(rs)
    /\ lastEvent' = [op |-> "error", arg |-> r]
    /\ UNCHANGED <<request, inputValue, placeholder, narrative, routeData, windows, location, ready>>

\* the 'error' event of request r is dispatched
DeliverError(r) ==
    /\ location = AppURL
    /\ reqs[r].status = "queued"
    /\ reqs[r].event = "error"
    /\ LET rs == [reqs EXCEPT ![r].status = "done"]
       IN  reqs' = rs /\ onRequestError(rs)
    /\ lastEvent' = [op |-> "error", arg |-> r]
    /\ UNCHANGED <<request, inputValue, placeholder, narrative, routeData, windows, location, ready>>

\* the user clicks the i-th rendered link
Click(i) ==
    /\ location = AppURL
    /\ ~resultsHidden
    /\ i \in Links
    /\ LinkClickListener(resultsContent[i].children[1])
    /\ lastEvent' = [op |-> "click", arg |-> i]
    /\ UNCHANGED <<request, reqs, ui, inputValue, placeholder, narrative, routeData, ready>>

\* the user closes a window opened by the app
CloseWindow ==
    /\ windows # <<>>
    /\ windows' = Tail(windows)
    /\ lastEvent' = [op |-> "close", arg |-> 0]
    /\ UNCHANGED <<request, reqs, ui, inputValue, placeholder, narrative, routeData, location, ready>>

----------------------------------------------------------------------------
(* displayNarrative: the html string is kept as the sequence of its pieces,
   tags, images (with the spaces that follow them) and text *)

Tag(t) == [k |-> "tag", v |-> t]
Img(src) == [k |-> "img", v |-> src]
Text(t) == [k |-> "text", v |-> t]

\* for (k = 0; k < maneuver.signs.length; k++) if (sign && sign.url) html += '<img ...>'
RECURSIVE SignsHTML(_, _)
SignsHTML(signs, k) ==
    IF k > Len(signs) THEN <<>>
    ELSE (IF ~signs[k].isNull /\ signs[k].url # "" THEN <<Img(signs[k].url)>> ELSE <<>>)
            \o SignsHTML(signs, k + 1)

\* mutant: the icon is written after the signs
ManeuverHTMLIconLast(maneuver) ==
    <<Tag("<tr>"), Tag("<td>")>>
        \o SignsHTML(maneuver.signs, 1)
        \o (IF maneuver.iconUrl # "" THEN <<Img(maneuver.iconUrl)>> ELSE <<>>)
        \o <<Tag("</td>"), Tag("<td>"), Text(maneuver.narrative), Tag("</td>"),
             Tag("</tr>")>>

\* the body of the inner loop: one <tr> for one maneuver
ManeuverHTML(maneuver) ==
    <<Tag("<tr>"), Tag("<td>")>>
        \o (IF maneuver.iconUrl # "" THEN <<Img(maneuver.iconUrl)>> ELSE <<>>)
        \o SignsHTML(maneuver.signs, 1)
        \o <<Tag("</td>"), Tag("<td>"), Text(maneuver.narrative), Tag("</td>"),
             Tag("</tr>")>>

\* for (j = 0; j < legs[i].maneuvers.length; j++)
RECURSIVE ManeuversHTML(_, _)
ManeuversHTML(maneuvers, j) ==
    IF j > Len(maneuvers) THEN <<>>
    ELSE ManeuverHTML(maneuvers[j]) \o ManeuversHTML(maneuvers, j + 1)

\* for (; i < legs.length; i++)
RECURSIVE LegsHTML(_, _)
LegsHTML(legs, i) ==
    IF i > Len(legs) THEN <<>>
    ELSE ManeuversHTML(legs[i].maneuvers, 1) \o LegsHTML(legs, i + 1)

\* mutant: the table is written without looking at data.route, and the
\* results region is emptied to make room for it
displayNarrativeClearsResults(data) ==
    /\ narrative' =
            <<Tag("<table>"), Tag("<tbody>")>> \o LegsHTML(data.legs, 1)
                \o <<Tag("</tbody>"), Tag("</table>")>>
    /\ resultsContent' = <<>>
    /\ UNCHANGED <<request, reqs, resultsHidden, errorText, errorHidden>>

displayNarrative(data) ==
    /\ narrative' =
            IF data.hasRoute
            THEN <<Tag("<table>"), Tag("<tbody>")>> \o LegsHTML(data.legs, 1)
                    \o <<Tag("</tbody>"), Tag("</table>")>>
            ELSE narrative
    /\ UNCHANGED <<request, reqs, ui>>

\* the map widget calls the callback of map.addRoute with the route it computed
RouteCallback(data) ==
    /\ routeData' = data
    /\ displayNarrative(data)
    /\ lastEvent' = [op |-> "route", arg |-> 0]
    /\ UNCHANGED <<inputValue, placeholder, windows, location, ready>>

Next ==
    \/ Submit
    \/ L10nReady
    \/ \E t \in Terms : TypeTerm(t)
    \/ NetLoad
    \/ NetError
    \/ \E r \in DOMAIN reqs : DeliverLoad(r)
    \/ \E r \in DOMAIN reqs : DeliverError(r)
    \/ \E i \in Links : Click(i)
    \/ CloseWindow

Spec == Init /\ [][Next]_vars

----------------------------------------------------------------------------
(* The route callback, applied to every route of RouteData from snapshots of
   the controller: idle, searching, showing results, showing an error *)

SnapshotRequest(ev, resp, err) ==
    [NewRequest(RequestURL("javascript")) EXCEPT
        !.status = "done", !.event = ev, !.response = resp, !.error = err]

InitNarrative ==
    /\ inputValue = ""
    /\ placeholder = "javascript"
    /\ windows = <<>>
    /\ location = AppURL
    /\ ready = FALSE
    /\ narrative = <<>>
    /\ routeData = NoRoute
    /\ \/ /\ request = 0
          /\ reqs = <<>>
          /\ resultsContent = <<>>
          /\ resultsHidden = TRUE
          /\ errorText = ""
          /\ errorHidden = TRUE
          /\ lastEvent = [op |-> "init", arg |-> 0]
       \/ /\ request = 1
          /\ reqs = <<NewRequest(RequestURL("javascript"))>>
          /\ resultsContent = <<TextNode(translate("searching"))>>
          /\ resultsHidden = FALSE
          /\ errorText = ""
          /\ errorHidden = TRUE
          /\ lastEvent = [op |-> "submit", arg |-> 1]
       \/ /\ request = 1
          /\ reqs = <<SnapshotRequest("load", DocumentsResponse(<<DocA, DocB>>), "")>>
          /\ resultsContent = RenderDocuments(<<DocA, DocB>>)
          /\ resultsHidden = FALSE
          /\ errorText = ""
          /\ errorHidden = TRUE
          /\ lastEvent = [op |-> "load", arg |-> 1]
       \/ /\ request = 1
          /\ reqs = <<SnapshotRequest("error", NullResponse, "NetworkError")>>
          /\ resultsContent = <<TextNode(translate("searching"))>>
          /\ resultsHidden = TRUE
          /\ errorText = "NetworkError"
          /\ errorHidden = FALSE
          /\ lastEvent = [op |-> "error", arg |-> 1]

NextNarrative == \E data \in RouteData : RouteCallback(data)

SpecNarrative == InitNarrative /\ [][NextNarrative]_vars

----------------------------------------------------------------------------
(* Vocabulary of the properties *)

\* a step in which search() ran
SearchStep == request' # request

\* a step in which the load or error event ev of request r was dispatched
Delivered(r, ev) ==
    /\ r \in DOMAIN reqs
    /\ reqs[r].status = "queued"
    /\ reqs[r].event = ev
    /\ reqs'[r].status = "done"

\* the text an element shows: the text of its text-node children
TextContent(n) == IF n.children = <<>> THEN "" ELSE n.children[1].text

Searching ==
    /\ resultsContent = <<TextNode(translate("searching"))>>
    /\ ~resultsHidden
    /\ errorHidden

\* the Error UI state: the error region alone is visible
ErrorState == ~errorHidden /\ resultsHidden

\* the Results UI state: the results region alone is visible and shows what a
\* load rendered, the 'no results' paragraph or the headings of the documents
ResultsState ==
    /\ ~resultsHidden
    /\ errorHidden
    /\ resultsContent # <<>>
    /\ \A i \in DOMAIN resultsContent : resultsContent[i].tag \in {"p", "h2"}

----------------------------------------------------------------------------
(* C1: at most one request is on the network at any time, and it is the one
   the controller holds: every search() leaves the request it replaces off
   the network (aborted, or already completed) and creates and sends the new
   request in the same step, so the new search is never queued behind the
   old one. *)
C1_SingleRequestInFlight ==
    /\ [](Cardinality(InFlight(reqs)) <= 1 /\ InFlight(reqs) \subseteq {request})
    /\ [][SearchStep =>
            /\ request' = Len(reqs) + 1
            /\ reqs'[request'].status = "sent"
            /\ request # 0 => reqs'[request].status \in {"aborted", "queued", "done"}
            /\ request # 0 /\ reqs[request].status = "sent"
                  => reqs'[request].status = "aborted"]_vars

\* a second search superseded a first one that was still on the network
C1_Witness ==
    /\ lastEvent.op = "submit"
    /\ request = 2
    /\ reqs[1].status = "aborted"
    /\ reqs[2].status = "sent"

(* C2: a load or error event of a superseded request that is still dispatched
   after the next search() leaves the four UI fields (results content and
   visibility, error text and visibility) as they were. *)
C2_StaleCompletionKeepsUI ==
    [][\A r \in DOMAIN reqs :
          r # request /\ (Delivered(r, "load") \/ Delivered(r, "error"))
              => UNCHANGED ui]_vars

(* C3: once a search has run, exactly one of the error region and the results
   region is visible. *)
C3_ExactlyOneRegionVisible == request # 0 => (errorHidden # resultsHidden)

(* C4: every search(), whatever the UI showed before, leaves the results
   region visible with exactly the 'searching' text and the error region
   hidden, in the step in which the new request is sent and before it can
   complete. *)
C4_SearchShowsSearching ==
    [][SearchStep =>
            /\ resultsContent' = <<TextNode(translate("searching"))>>
            /\ resultsHidden' = FALSE
            /\ errorHidden' = TRUE
            /\ reqs'[request'].status = "sent"]_vars

\* a search issued while the UI was in Error (the generic message is still
\* stored in the hidden error region)
C4_Witness ==
    /\ lastEvent.op = "submit"
    /\ request = 2
    /\ errorText = translate("searching_error")
    /\ Searching

(* C5: the URL of the request a search() sends is the base endpoint followed
   by the field's value when that is non-empty and by the field's placeholder
   when it is empty, character for character. *)
C5_RequestURL ==
    [][SearchStep =>
            reqs'[request'].url =
                apiURL \o (IF inputValue = "" THEN placeholder ELSE inputValue)]_vars

\* one search with the empty field and one with a term that an encoder
\* would have changed
C5_Witness ==
    /\ request = 2
    /\ reqs[1].url = "https://developer.mozilla.org/search.json?q=javascript"
    /\ reqs[2].url = "https://developer.mozilla.org/search.json?q=a b&c"

(* C6: when the load event of the current request is dispatched and its
   response is null, the error region becomes visible with the generic
   'searching_error' message, the results region is hidden, and the results
   region's content is not touched. *)
C6_NullResponseShowsError ==
    [][Delivered(request, "load") /\ reqs[request].response.isNull =>
            /\ errorHidden' = FALSE
            /\ errorText' = translate("searching_error")
            /\ resultsHidden' = TRUE
            /\ resultsContent' = resultsContent]_vars

C6_Witness ==
    /\ lastEvent = [op |-> "load", arg |-> request]
    /\ reqs[request].status = "done"
    /\ reqs[request].response.isNull
    /\ ~errorHidden
    /\ resultsHidden

(* C7: when the error event of the current request is dispatched, the error
   region becomes visible and the results region hidden, and the text shown is
   the request's reported error when there is one and the generic
   'searching_error' message otherwise. *)
C7_ErrorEventShowsError ==
    [][Delivered(request, "error") =>
            /\ errorHidden' = FALSE
            /\ resultsHidden' = TRUE
            /\ errorText' = IF reqs[request].error # ""
                            THEN reqs[request].error
                            ELSE translate("searching_error")]_vars

\* an error event that carried a reported error
C7_Witness ==
    /\ lastEvent = [op |-> "error", arg |-> request]
    /\ reqs[request].error = "NetworkError"
    /\ errorText = "NetworkError"
    /\ ~errorHidden
    /\ resultsHidden

(* C8: when the load event of the current request is dispatched and its
   response carries an empty documents list, the results region holds exactly
   the one 'search_no_results' paragraph and the UI is in Results: results
   region visible and error region hidden. *)
C8_EmptyListShowsNoResults ==
    [][/\ Delivered(request, "load")
       /\ reqs[request].response.hasDocuments
       /\ reqs[request].response.documents = <<>>
       =>  /\ Len(resultsContent') = 1
           /\ resultsContent'[1].tag = "p"
           /\ TextContent(resultsContent'[1]) = translate("search_no_results")
           /\ resultsHidden' = FALSE
           /\ errorHidden' = TRUE]_vars

(* C9: when a load event is dispatched and the response the handler reads has
   a non-empty documents list, the results region afterwards holds exactly one
   heading per document, in the order of the list, each heading holding one
   link whose text is the document's title and whose href is the document's
   url; nothing rendered before remains. *)
C9_DocumentsRendered ==
    [][\A r \in DOMAIN reqs :
          /\ Delivered(r, "load")
          /\ Response(reqs', request).hasDocuments
          /\ Response(reqs', request).documents # <<>>
          =>  LET docs == Response(reqs', request).documents
              IN  /\ Len(resultsContent') = Len(docs)
                  /\ \A i \in 1..Len(docs) :
                        /\ resultsContent'[i].tag = "h2"
                        /\ Len(resultsContent'[i].children) = 1
                        /\ resultsContent'[i].children[1].tag = "a"
                        /\ TextContent(resultsContent'[i].children[1]) = docs[i].title
                        /\ resultsContent'[i].children[1].href = docs[i].url]_vars

\* the second search's two documents replaced the first search's single one
C9_Witness ==
    /\ lastEvent = [op |-> "load", arg |-> 2]
    /\ request = 2
    /\ reqs[1].status = "done"
    /\ reqs[1].response.documents = <<DocB>>
    /\ reqs[2].response.documents = <<DocA, DocB>>
    /\ Len(resultsContent) = 2
    /\ TextContent(resultsContent[1].children[1]) = "A"
    /\ resultsContent[2].children[1].href = "/docs/b"

(* C10: a click on a rendered link leaves the main page where it is, leaves
   exactly one opened window, named 'overlay', showing the link's target, and
   changes neither the UI fields nor the request handle; at no time is there
   more than one opened window. *)
C10_ClickOpensOverlay ==
    /\ [](Len(windows) <= 1)
    /\ [][lastEvent'.op = "click" =>
            LET link == resultsContent[lastEvent'.arg].children[1]
            IN  /\ location' = AppURL
                /\ windows' = <<[name |-> "overlay", url |-> ResolveURL(link.href)]>>
                /\ UNCHANGED <<ui, request>>]_vars

\* the second link of a two-document result was clicked
C10_Witness ==
    /\ lastEvent = [op |-> "click", arg |-> 2]
    /\ windows = <<[name |-> "overlay", url |-> "app://mapq/docs/b"]>>
    /\ location = AppURL

(* C11: the controller has no terminal state: in the Error state and in the
   Results state a submit is enabled (as long as the run has not used up its
   MaxReq requests), and a search() issued there shows Searching and sends a
   new request; Results is reachable again after an Error. *)
C11_NoTerminalState ==
    /\ []((ErrorState \/ ResultsState) /\ Len(reqs) < MaxReq => ENABLED Submit)
    /\ [][(ErrorState \/ ResultsState) /\ SearchStep =>
            /\ Searching'
            /\ Len(reqs') = Len(reqs) + 1
            /\ reqs'[request'].status = "sent"]_vars

\* the first search failed with a transport error, the second rendered results
C11_Witness ==
    /\ lastEvent = [op |-> "load", arg |-> 2]
    /\ request = 2
    /\ reqs[1].status = "done"
    /\ reqs[1].event = "error"
    /\ ResultsState
    /\ Len(resultsContent) = 2

\* the current request completed without usable data
CurrentFailed ==
    /\ request # 0
    /\ reqs[request].status = "done"
    /\ (reqs[request].event = "error" \/ reqs[request].response.isNull)

(* C12: requests are created by search() invocations only: every step adds
   exactly one request when it is a submit or the readiness invocation and
   none otherwise, a completion handler changes neither the request handle
   nor the set of requests on the network, and once the current request has
   failed the UI is in Error for as long as it stays the current request. *)
C12_NoAutomaticRetry ==
    /\ [][Len(reqs') =
            Len(reqs) + (IF lastEvent'.op \in {"submit", "ready"} THEN 1 ELSE 0)]_vars
    /\ [][lastEvent'.op \in {"load", "error"} =>
            request' = request /\ InFlight(reqs') = InFlight(reqs)]_vars
    /\ [](CurrentFailed => ErrorState)

\* the only search failed; the user typed afterwards, nothing was resent
C12_Witness ==
    /\ lastEvent.op = "type"
    /\ Len(reqs) = 1
    /\ CurrentFailed
    /\ reqs[1].event = "error"
    /\ InFlight(reqs) = {}
    /\ ErrorState

(* C13: the UI moves only along Idle -> Searching -> {Results | Error} and
   back to Searching on search(): the Error state and the Results state are
   entered only from the Searching state, and every search() ends in
   Searching. *)
C13_StatedTransitionsOnly ==
    [][/\ (~ErrorState /\ ErrorState' => Searching)
       /\ (~ResultsState /\ ResultsState' => Searching)
       /\ (SearchStep => Searching')]_vars

(* C14: the automatic search runs exactly at the readiness signal, which
   happens at most once: a readiness step is the step in which `ready` becomes
   true and it is a search() step; every other search() step is a form submit,
   and a submit leaves the main page where it is (the default form submission
   is suppressed); a readiness search that finds a request from an earlier
   submit takes over the handle and leaves that request off the network. *)
C14_OneAutomaticSearch ==
    /\ [][lastEvent'.op = "ready" => ~ready /\ ready' /\ SearchStep]_vars
    /\ [][ready' # ready => lastEvent'.op = "ready"]_vars
    /\ [][SearchStep => lastEvent'.op \in {"submit", "ready"}]_vars
    /\ [][lastEvent'.op = "submit" => SearchStep /\ location' = AppURL]_vars
    /\ [][lastEvent'.op = "ready" /\ request # 0 =>
            /\ request' # request
            /\ reqs'[request].status # "sent"
            /\ reqs'[request'].status = "sent"]_vars

\* a submit came before the readiness signal and its request was aborted by
\* the readiness search
C14_Witness ==
    /\ lastEvent = [op |-> "ready", arg |-> 2]
    /\ ready
    /\ reqs[1].status = "aborted"
    /\ reqs[2].status = "sent"

----------------------------------------------------------------------------
(* Reading the narrative region back: the table rows and their cells *)

\* position of the first piece equal to t, or Len(toks) + 1
FirstAt(toks, t) ==
    IF \E i \in DOMAIN toks : toks[i] = t
    THEN CHOOSE i \in DOMAIN toks : toks[i] = t /\ \A j \in 1..(i - 1) : toks[j] # t
    ELSE Len(toks) + 1

\* the pieces enclosed by each open ... close pair, in order
RECURSIVE Enclosed(_, _, _)
Enclosed(toks, open, close) ==
    LET o == FirstAt(toks, open)
    IN  IF o > Len(toks) THEN <<>>
        ELSE LET rest == SubSeq(toks, o + 1, Len(toks))
                 c == FirstAt(rest, close)
             IN  <<SubSeq(rest, 1, c - 1)>>
                    \o Enclosed(SubSeq(rest, c + 1, Len(rest)), open, close)

\* the rows of the table, each the sequence of its cells
Rows(html) ==
    LET trs == Enclosed(html, Tag("<tr>"), Tag("</tr>"))
    IN  [i \in 1..Len(trs) |-> Enclosed(trs[i], Tag("<td>"), Tag("</td>"))]

\* all maneuvers of a route, leg after leg
RECURSIVE AllManeuvers(_)
AllManeuvers(legs) ==
    IF legs = <<>> THEN <<>> ELSE Head(legs).maneuvers \o AllManeuvers(Tail(legs))

HasURL(sign) == ~sign.isNull /\ sign.url # ""

\* the image sources a maneuver's first cell must show
ManeuverImages(m) ==
    LET shown == SelectSeq(m.signs, HasURL)
    IN  (IF m.iconUrl # "" THEN <<m.iconUrl>> ELSE <<>>)
            \o [i \in 1..Len(shown) |-> shown[i].url]

(* C15: for data with a route, displayNarrative leaves in the narrative region
   one table whose rows are the route's maneuvers, leg after leg and in each
   leg's order; every row has two cells, the first holding only images, the
   icon (when the maneuver has one) followed by the signs that have a url in
   sign order, the second holding the narrative text. *)
C15_NarrativeTable ==
    lastEvent.op = "route" /\ routeData.hasRoute =>
        LET ms == AllManeuvers(routeData.legs)
            rows == Rows(narrative)
        IN  /\ SubSeq(narrative, 1, 2) = <<Tag("<table>"), Tag("<tbody>")>>
            /\ SubSeq(narrative, Len(narrative) - 1, Len(narrative))
                  = <<Tag("</tbody>"), Tag("</table>")>>
            /\ Len(rows) = Len(ms)
            /\ \A i \in 1..Len(ms) :
                  /\ Len(rows[i]) = 2
                  /\ \A j \in DOMAIN rows[i][1] : rows[i][1][j].k = "img"
                  /\ [j \in DOMAIN rows[i][1] |-> rows[i][1][j].v] = ManeuverImages(ms[i])
                  /\ rows[i][2] = <<Text(ms[i].narrative)>>

\* a route of two legs and four maneuvers was rendered
C15_Witness ==
    /\ lastEvent.op = "route"
    /\ routeData = Route(<<Leg(<<ManeuverTurn>>),
                           Leg(<<ManeuverArrive, ManeuverTurn, ManeuverGo>>)>>)
    /\ Len(Rows(narrative)) = 4
    /\ Rows(narrative)[1][1] = <<Img("icon-left.gif"), Img("sign-1.gif"), Img("sign-2.gif")>>
    /\ Rows(narrative)[4] = <<<<>>, <<Text("Go north")>>>>

(* C16: once the completion event of the current request has been dispatched
   (and no further search() has replaced it), the UI has left Searching and is
   in Results or in Error, for every load, one whose non-null response has no
   documents list included. *)
C16_CompletionEndsInResultsOrError ==
    request # 0 /\ reqs[request].status = "done" => (ResultsState \/ ErrorState)

(* C17: what the UI displays comes from the most recently created request
   only: the handle is always the newest request; whenever the results region
   holds document headings they are exactly the rendering of the current
   request's documents, and whenever the error region is visible after a
   search its text is the generic message or the current request's reported
   error; this holds whichever request's completion event was dispatched. *)
C17_DisplayedDataIsCurrent ==
    /\ request = Len(reqs)
    /\ (\E i \in DOMAIN resultsContent : resultsContent[i].tag = "h2")
          =>  /\ reqs[request].status = "done"
              /\ reqs[request].response.hasDocuments
              /\ resultsContent = RenderDocuments(reqs[request].response.documents)
    /\ (request # 0 /\ ~errorHidden /\ errorText # translate("searching_error"))
          =>  /\ reqs[request].status = "done"
              /\ errorText = reqs[request].error

\* the load event of the superseded request 1, which carried one document,
\* was dispatched after the current request 2 had rendered its two documents
C17_Witness ==
    /\ lastEvent = [op |-> "load", arg |-> 1]
    /\ request = 2
    /\ reqs[1].status = "done"
    /\ reqs[1].response.documents = <<DocB>>
    /\ reqs[2].status = "done"
    /\ reqs[2].response.documents = <<DocA, DocB>>
    /\ Len(resultsContent) = 2

\* a step in which a completion handler called showError
ShowErrorStep ==
    \/ lastEvent'.op = "error"
    \/ lastEvent'.op = "load" /\ Response(reqs', request').isNull

(* C18: frame conditions: a search() step leaves the term field's value, its
   placeholder and the error region's text as they were; a step in which
   showError ran leaves the results region's content and the request handle
   as they were; no completion handler step changes the request handle. *)
C18_FrameConditions ==
    /\ [][SearchStep => UNCHANGED <<inputValue, placeholder, errorText>>]_vars
    /\ [][ShowErrorStep => UNCHANGED <<resultsContent, request>>]_vars
    /\ [][lastEvent'.op \in {"load", "error"} => UNCHANGED request]_vars

\* a search after a reported error: the text is still there, hidden
C18_Witness ==
    /\ lastEvent = [op |-> "submit", arg |-> 2]
    /\ errorHidden
    /\ errorText = "NetworkError"
    /\ inputValue = "a b&c"

(* C19: a call of displayNarrative with data that carries no route leaves the
   narrative region as it was, and every call leaves the request handle, the
   requests, the results region and the error region as they were; the table
   it writes for a route is determined by the route alone, whatever the
   search controller's state. *)
C19_NarrativeFrame ==
    [][lastEvent'.op = "route" =>
            /\ (~routeData'.hasRoute => narrative' = narrative)
            /\ (routeData'.hasRoute =>
                    narrative' = <<Tag("<table>"), Tag("<tbody>")>>
                                    \o LegsHTML(routeData'.legs, 1)
                                    \o <<Tag("</tbody>"), Tag("</table>")>>)
            /\ UNCHANGED <<request, reqs, resultsContent, resultsHidden,
                           errorText, errorHidden>>]_vars

\* data without a route arrived while the region showed an earlier route's
\* table and the controller showed results
C19_Witness ==
    /\ lastEvent.op = "route"
    /\ ~routeData.hasRoute
    /\ narrative # <<>>
    /\ resultsContent = RenderDocuments(<<DocA, DocB>>)

====
